---------------------------- MODULE Spec2Model ----------------------------
(***************************************************************************)
(* Model of src/Speech_To_Text.py: the caption pipeline                    *)
(*   main -> transcribe (ffmpeg normalisation, backend) -> write_srt,      *)
(*   write_vtt, write_txt, with the timestamp codec they share.            *)
(*                                                                         *)
(* Representation.                                                         *)
(*  - A str is a sequence of character codes (72 is "H", 10 is "\n").      *)
(*  - A float number of seconds is a whole number of ticks, TicksPerMs     *)
(*    ticks to the millisecond, so that a value can lie below, on or above *)
(*    the half-millisecond; seconds * 1000 is taken exactly and round() is *)
(*    Python's round-half-to-even.                                         *)
(*  - A path is a triple <<root, number, name>>.                           *)
(*  - Every run of transcribe has an identity r \in Runs; the variables of *)
(*    a run are the components [r] of the functions below.                 *)
(***************************************************************************)
EXTENDS Integers, Sequences, FiniteSets

VARIABLES
    \* module globals, set at import (lines 28-38)
    fwInstalled, owInstalled, USE_FASTER_WHISPER, whisper,
    \* the environment shared by every run
    ffmpegOnPath, fsDirs, fsFiles, touched,
    \* one run of transcribe / main
    pc, isAudio, temp_dir, work_audio, segments, exc, log,
    \* the caption files and what main leaves behind
    files, exitStatus,
    \* direct calls of the timestamp codec
    secsX, secsY, stamps

globalVars == <<fwInstalled, owInstalled, USE_FASTER_WHISPER, whisper>>
envVars    == <<ffmpegOnPath, fsDirs, fsFiles, touched>>
runVars    == <<pc, isAudio, temp_dir, work_audio, segments, exc, log>>
outVars    == <<files, exitStatus>>
codecVars  == <<secsX, secsY, stamps>>
vars       == <<globalVars, envVars, runVars, outVars, codecVars>>

----------------------------------------------------------------------------
(* Bounds of the model *)

\* the largest number of segments in a Transcription Result handed to a writer
MaxSegs == 2
\* the largest hour count of a timestamp handed to the codec
MaxHours == 100
\* how many names mkdtemp can draw from
MaxTempNames == 3

\* resolution of a seconds value: ticks per millisecond
TicksPerMs == 4

Runs == {1, 2}
MainRuns == {1}

----------------------------------------------------------------------------
(* Characters and strings *)

NL == 10
SP == 32
Colon == 58
Comma == 44
Period == 46

\* the characters str.strip() removes
Whitespace == {9, 10, 11, 12, 13, 32}

\* " --> "
Arrow == <<32, 45, 45, 62, 32>>
\* "WEBVTT"
WebVttHeader == <<87, 69, 66, 86, 84, 84>>

RECURSIVE DecDigits(_)
\* the decimal digits of n >= 0, as characters
DecDigits(n) ==
    IF n < 10 THEN <<48 + n>>
    ELSE DecDigits(n \div 10) \o <<48 + (n % 10)>>

RECURSIVE ZeroFill(_, _)
ZeroFill(s, w) == IF Len(s) >= w THEN s ELSE ZeroFill(<<48>> \o s, w)

\* a plausible bug: f"{n}", no width
FormatIntNoPad(n, w) == DecDigits(n)

\* f"{n:0wd}" for n >= 0: at least w digits, zero-padded on the left
FormatInt(n, w) == ZeroFill(DecDigits(n), w)

RECURSIVE lstrip(_)
lstrip(s) ==
    IF s # <<>> /\ Head(s) \in Whitespace THEN lstrip(Tail(s)) ELSE s

RECURSIVE rstrip(_)
rstrip(s) ==
    IF s # <<>> /\ s[Len(s)] \in Whitespace
    THEN rstrip(SubSeq(s, 1, Len(s) - 1))
    ELSE s

\* str.strip()
strip(s) == rstrip(lstrip(s))

\* str.replace("\n", " ")
replace_newlines(s) == [i \in 1..Len(s) |-> IF s[i] = NL THEN SP ELSE s[i]]

----------------------------------------------------------------------------
(* Timestamp codec, lines 73-97 *)

\* a plausible bug: int(seconds * 1000), which truncates
TruncMs(seconds) == seconds \div TicksPerMs

\* int(round(seconds * 1000)): the nearest millisecond, a tie going to the
\* even one (Python 3's round). The product is exact here; on binary doubles
\* it can fall a rounding error off a decimal tie, which then goes to the
\* other neighbour (1.9995 * 1000 is 1999.5 exactly and goes to 2000).
RoundMs(seconds) ==
    LET q == seconds \div TicksPerMs
        r == seconds % TicksPerMs
    IN  IF 2 * r < TicksPerMs THEN q
        ELSE IF 2 * r > TicksPerMs THEN q + 1
        ELSE IF q % 2 = 0 THEN q ELSE q + 1

\* lines 73-84
format_timestamp_srt(seconds) ==
    LET ms0 == RoundMs(seconds)
        h   == ms0 \div (3600 * 1000)
        ms1 == ms0 - h * 3600 * 1000
        m   == ms1 \div (60 * 1000)
        ms2 == ms1 - m * 60 * 1000
        s   == ms2 \div 1000
        ms3 == ms2 - s * 1000
    IN  FormatInt(h, 2) \o <<Colon>> \o FormatInt(m, 2) \o <<Colon>>
          \o FormatInt(s, 2) \o <<Comma>> \o FormatInt(ms3, 3)

\* lines 86-97
format_timestamp_vtt(seconds) ==
    LET ms0 == RoundMs(seconds)
        h   == ms0 \div (3600 * 1000)
        ms1 == ms0 - h * 3600 * 1000
        m   == ms1 \div (60 * 1000)
        ms2 == ms1 - m * 60 * 1000
        s   == ms2 \div 1000
        ms3 == ms2 - s * 1000
    IN  FormatInt(h, 2) \o <<Colon>> \o FormatInt(m, 2) \o <<Colon>>
          \o FormatInt(s, 2) \o <<Period>> \o FormatInt(ms3, 3)

----------------------------------------------------------------------------
(* Caption writers, lines 99-126: the bytes each writes to its file *)

\* line 108 and line 118: seg["text"].strip().replace("\n", " ")
CueText(text) == replace_newlines(strip(text))

\* line 109: f"{i}\n{start} --> {end}\n{text}\n\n"
SrtBlock(i, seg) ==
    DecDigits(i) \o <<NL>>
      \o format_timestamp_srt(seg.start) \o Arrow \o format_timestamp_srt(seg.end)
      \o <<NL>> \o CueText(seg.text) \o <<NL, NL>>

RECURSIVE SrtBlocks(_, _)
\* the loop of lines 104-109 from index i on
SrtBlocks(segs, i) ==
    IF i > Len(segs) THEN <<>>
    ELSE SrtBlock(i, segs[i]) \o SrtBlocks(segs, i + 1)

\* a plausible bug: enumerate(segments) without start=1
SrtBlocksFromZero(segs) ==
    IF segs = <<>> THEN <<>>
    ELSE SrtBlock(0, segs[1]) \o SrtBlocks(segs, 2)

\* lines 99-110
write_srt(segs) == SrtBlocks(segs, 1)

\* line 119: f"{start} --> {end}\n{text}\n\n"
VttCue(seg) ==
    format_timestamp_vtt(seg.start) \o Arrow \o format_timestamp_vtt(seg.end)
      \o <<NL>> \o CueText(seg.text) \o <<NL, NL>>

RECURSIVE VttCues(_)
VttCues(segs) ==
    IF segs = <<>> THEN <<>> ELSE VttCue(Head(segs)) \o VttCues(Tail(segs))

\* a plausible bug: the header line forgotten
write_vtt_no_header(segs) == VttCues(segs)

\* lines 112-120: "WEBVTT\n\n", then the cues
write_vtt(segs) == WebVttHeader \o <<NL, NL>> \o VttCues(segs)

\* line 125: seg["text"].strip() + "\n"
TxtLine(seg) == strip(seg.text) \o <<NL>>

RECURSIVE TxtLines(_)
TxtLines(segs) ==
    IF segs = <<>> THEN <<>> ELSE TxtLine(Head(segs)) \o TxtLines(Tail(segs))

\* lines 122-126
write_txt(segs) == TxtLines(segs)

\* a file that does not exist, and a file open(path, "w") wrote data to
NoFile == [exists |-> FALSE, data |-> <<>>]
FileOf(data) == [exists |-> TRUE, data |-> data]
NoFiles == [srt |-> NoFile, vtt |-> NoFile, txt |-> NoFile]

----------------------------------------------------------------------------
(* Import, lines 28-38 *)

\* line 29, line 33: True exactly when faster_whisper imports
ImportUseFasterWhisper(fw) == fw

\* lines 34-38: the name whisper is bound only when faster_whisper failed to
\* import: to the module, or to None when openai-whisper is missing too
ImportWhisper(fw, ow) ==
    IF fw THEN "unbound" ELSE IF ow THEN "module" ELSE "None"

----------------------------------------------------------------------------
(* Paths, events, inputs *)

NoPath == <<"none", 0, "">>
InputPath(r) == <<"in", r, "media">>

\* line 171: tempfile.mkdtemp creates a directory that did not exist before
FreshTempDirs == (1..MaxTempNames) \ fsDirs

\* a plausible bug: one fixed directory for every run
FixedTempDirs == {1}

\* the names the directory of line 171 can get
MkdtempNames == FreshTempDirs

\* line 176 and line 190: os.path.join(temp_dir, ...)
AudioWorkPath(d) == <<"tmp", d, "input.wav">>
VideoWorkPath(d) == <<"tmp", d, "extracted.wav">>

\* an event of a run: <<what, who, path, outcome>>
Event(what, who, path, outcome) == <<what, who, path, outcome>>

\* a plausible bug: subprocess.run without check=True
NoCheck(rc) == FALSE

\* line 187, check=True: a non-zero exit status raises CalledProcessError
CheckRaises(rc) == rc # 0

\* lines 59-62: a non-zero exit status raises RuntimeError
ExtractRaises(rc) == rc # 0

\* what a backend can answer for the media of the model
Hello == [start |-> 0, end |-> 6000, text |-> <<32, 72, 105>>]
World == [start |-> 6000, end |-> 12000, text |-> <<119, 111, 10, 114, 32>>]
BackendResults == {<<>>, <<Hello>>, <<Hello, World>>}

\* the argument the backend of lines 195 and 199 is called with
BackendAudio(r) == work_audio[r]

\* a plausible change: shutil.rmtree(temp_dir) in the finally block
RmtreeDirs(r) == fsDirs \ {temp_dir[r]}

\* lines 203-205: the finally block is "pass": the directory stays
FinallyDirs(r) == fsDirs
FinallyFiles(r) == fsFiles

----------------------------------------------------------------------------
(* transcribe, lines 158-205, run r *)

Goto(r, label) == pc' = [pc EXCEPT ![r] = label]
Logged(r, e) == log' = [log EXCEPT ![r] = Append(@, e)]
Raise(r, name) == exc' = [exc EXCEPT ![r] = name]

\* lines 163-165
TEnter(r) ==
    /\ pc[r] = "t_enter"
    /\ \/ /\ Goto(r, "t_mkdtemp")
          /\ Logged(r, Event("exists", "input", InputPath(r), "yes"))
          /\ UNCHANGED exc
       \/ /\ Goto(r, "t_raised")
          /\ Logged(r, Event("exists", "input", InputPath(r), "no"))
          /\ Raise(r, "FileNotFoundError")
    /\ UNCHANGED <<globalVars, envVars, isAudio, temp_dir, work_audio, segments,
                   outVars, codecVars>>

\* lines 170-171
TMkdtemp(r) ==
    /\ pc[r] = "t_mkdtemp"
    /\ \E d \in MkdtempNames :
          /\ temp_dir' = [temp_dir EXCEPT ![r] = d]
          /\ fsDirs' = fsDirs \cup {d}
    /\ Goto(r, "t_normalize")
    /\ UNCHANGED <<globalVars, ffmpegOnPath, fsFiles, touched, isAudio,
                   work_audio, segments, exc, log, outVars, codecVars>>

\* the ffmpeg subprocess of run r writing out: it exits with rc; the output
\* file is there after exit 0 and may or may not be after a failure
RunFfmpeg(r, out, rc, left) ==
    /\ touched' = touched \cup {<<out, r>>}
    /\ fsFiles' = IF rc = 0 \/ left THEN fsFiles \cup {out} ELSE fsFiles

\* lines 173-187: an audio extension
TNormalizeAudio(r) ==
    /\ pc[r] = "t_normalize"
    /\ isAudio[r]
    /\ work_audio' = [work_audio EXCEPT ![r] = AudioWorkPath(temp_dir[r])]
    /\ \/ /\ ~ffmpegOnPath
          /\ Raise(r, "RuntimeError")
          /\ Logged(r, Event("which", "ffmpeg", NoPath, "missing"))
          /\ Goto(r, "t_finally")
          /\ UNCHANGED <<fsFiles, touched>>
       \/ /\ ffmpegOnPath
          /\ \E rc \in {0, 1}, left \in BOOLEAN :
                /\ RunFfmpeg(r, AudioWorkPath(temp_dir[r]), rc, left)
                /\ Logged(r, Event("ffmpeg", "normalize",
                                   AudioWorkPath(temp_dir[r]),
                                   IF rc = 0 THEN "exit0" ELSE "failed"))
                /\ IF CheckRaises(rc)
                   THEN Raise(r, "CalledProcessError") /\ Goto(r, "t_finally")
                   ELSE UNCHANGED exc /\ Goto(r, "t_backend")
    /\ UNCHANGED <<globalVars, ffmpegOnPath, fsDirs, isAudio, temp_dir,
                   segments, outVars, codecVars>>

\* lines 188-191 with extract_audio_from_video, lines 40-63
TExtractVideo(r) ==
    /\ pc[r] = "t_normalize"
    /\ ~isAudio[r]
    /\ work_audio' = [work_audio EXCEPT ![r] = VideoWorkPath(temp_dir[r])]
    /\ \/ /\ ~ffmpegOnPath
          /\ Raise(r, "RuntimeError")
          /\ Logged(r, Event("which", "ffmpeg", NoPath, "missing"))
          /\ Goto(r, "t_finally")
          /\ UNCHANGED <<fsFiles, touched>>
       \/ /\ ffmpegOnPath
          /\ \E rc \in {0, 1}, left \in BOOLEAN :
                /\ RunFfmpeg(r, VideoWorkPath(temp_dir[r]), rc, left)
                /\ Logged(r, Event("ffmpeg", "extract",
                                   VideoWorkPath(temp_dir[r]),
                                   IF rc = 0 THEN "exit0" ELSE "failed"))
                /\ IF ExtractRaises(rc)
                   THEN Raise(r, "RuntimeError") /\ Goto(r, "t_finally")
                   ELSE UNCHANGED exc /\ Goto(r, "t_backend")
    /\ UNCHANGED <<globalVars, ffmpegOnPath, fsDirs, isAudio, temp_dir,
                   segments, outVars, codecVars>>

\* a backend called on path: it reads the file, then raises or returns segments
CallBackend(r, who, path) ==
    /\ touched' = touched \cup {<<path, r>>}
    /\ \/ /\ Logged(r, Event("backend", who, path, "raised"))
          /\ Raise(r, "BackendError")
          /\ UNCHANGED segments
       \/ /\ Logged(r, Event("backend", who, path, "returned"))
          /\ \E res \in BackendResults :
                segments' = [segments EXCEPT ![r] = res]
          /\ UNCHANGED exc
    /\ Goto(r, "t_finally")

\* lines 194-195 with transcribe_with_faster_whisper, lines 128-141
TBackendFaster(r) ==
    /\ pc[r] = "t_backend"
    /\ USE_FASTER_WHISPER
    /\ CallBackend(r, "faster-whisper", BackendAudio(r))
    /\ UNCHANGED <<globalVars, ffmpegOnPath, fsDirs, fsFiles, isAudio, temp_dir,
                   work_audio, outVars, codecVars>>

\* lines 196-198
TNoBackend(r) ==
    /\ pc[r] = "t_backend"
    /\ ~USE_FASTER_WHISPER
    /\ whisper = "None"
    /\ Raise(r, "RuntimeError: No whisper backend available")
    /\ Goto(r, "t_finally")
    /\ UNCHANGED <<globalVars, envVars, isAudio, temp_dir, work_audio, segments,
                   log, outVars, codecVars>>

\* line 199 with transcribe_with_whisper, lines 143-156
TBackendWhisper(r) ==
    /\ pc[r] = "t_backend"
    /\ ~USE_FASTER_WHISPER
    /\ whisper = "module"
    /\ CallBackend(r, "openai-whisper", BackendAudio(r))
    /\ UNCHANGED <<globalVars, ffmpegOnPath, fsDirs, fsFiles, isAudio, temp_dir,
                   work_audio, outVars, codecVars>>

\* lines 201-205: the finally block, then the return or the exception
TFinally(r) ==
    /\ pc[r] = "t_finally"
    /\ fsDirs' = FinallyDirs(r)
    /\ fsFiles' = FinallyFiles(r)
    /\ Logged(r, Event("transcribe", "exit", NoPath,
                       IF exc[r] = "none" THEN "returned" ELSE "raised"))
    /\ Goto(r, IF exc[r] = "none" THEN "t_returned" ELSE "t_raised")
    /\ UNCHANGED <<globalVars, ffmpegOnPath, touched, isAudio, temp_dir,
                   work_audio, segments, exc, outVars, codecVars>>

----------------------------------------------------------------------------
(* main, lines 207-257, run r *)

OutPath(r, ext) == <<"out", r, ext>>

\* lines 208-244: the paths are computed and transcribe is called
MainStart(r) ==
    /\ pc[r] = "m_start"
    /\ Goto(r, "t_enter")
    /\ UNCHANGED <<globalVars, envVars, isAudio, temp_dir, work_audio, segments,
                   exc, log, outVars, codecVars>>

\* lines 245-247: no segments: a warning, and main returns
MainNoSegments(r) ==
    /\ pc[r] = "t_returned"
    /\ segments[r] = <<>>
    /\ Logged(r, Event("print", "no segments", NoPath, ""))
    /\ Goto(r, "exit")
    /\ exitStatus' = 0
    /\ UNCHANGED <<globalVars, envVars, isAudio, temp_dir, work_audio, segments,
                   exc, files, codecVars>>

\* a plausible bug: each writer in its own try/except that prints and goes on
MainWriterGoesOn(r, ext, data, next) ==
    \/ /\ files' = [files EXCEPT ![ext] = FileOf(data)]
       /\ Logged(r, Event("writer", ext, OutPath(r, ext), "ok"))
       /\ Goto(r, next)
       /\ UNCHANGED exc
    \/ /\ \E f \in {NoFile, FileOf(<<>>)} : files' = [files EXCEPT ![ext] = f]
       /\ Logged(r, Event("writer", ext, OutPath(r, ext), "failed"))
       /\ Goto(r, next)
       /\ UNCHANGED exc

\* a writer called by main: open(path, "w") and the writes either succeed, or
\* raise OSError leaving no file (open failed) or an empty one (a write failed);
\* the exception leaves the try block of lines 243-254
MainWriter(r, ext, data, next) ==
    \/ /\ files' = [files EXCEPT ![ext] = FileOf(data)]
       /\ Logged(r, Event("writer", ext, OutPath(r, ext), "ok"))
       /\ Goto(r, next)
       /\ UNCHANGED exc
    \/ /\ \E f \in {NoFile, FileOf(<<>>)} : files' = [files EXCEPT ![ext] = f]
       /\ Logged(r, Event("writer", ext, OutPath(r, ext), "failed"))
       /\ Raise(r, "OSError")
       /\ Goto(r, "m_except")

\* line 248
MainWriteSrt(r) ==
    /\ pc[r] = "t_returned"
    /\ segments[r] # <<>>
    /\ MainWriter(r, "srt", write_srt(segments[r]), "m_vtt")
    /\ UNCHANGED <<globalVars, envVars, isAudio, temp_dir, work_audio, segments,
                   exitStatus, codecVars>>

\* line 249
MainWriteVtt(r) ==
    /\ pc[r] = "m_vtt"
    /\ MainWriter(r, "vtt", write_vtt(segments[r]), "m_txt")
    /\ UNCHANGED <<globalVars, envVars, isAudio, temp_dir, work_audio, segments,
                   exitStatus, codecVars>>

\* line 250
MainWriteTxt(r) ==
    /\ pc[r] = "m_txt"
    /\ MainWriter(r, "txt", write_txt(segments[r]), "m_success")
    /\ UNCHANGED <<globalVars, envVars, isAudio, temp_dir, work_audio, segments,
                   exitStatus, codecVars>>

\* lines 251-254: the success message; main returns
MainSuccess(r) ==
    /\ pc[r] = "m_success"
    /\ Logged(r, Event("print", "complete", NoPath, ""))
    /\ Goto(r, "exit")
    /\ exitStatus' = 0
    /\ UNCHANGED <<globalVars, envVars, isAudio, temp_dir, work_audio, segments,
                   exc, files, codecVars>>

\* lines 255-257: except Exception: the error is printed, sys.exit(1)
MainExcept(r) ==
    /\ pc[r] \in {"t_raised", "m_except"}
    /\ Logged(r, Event("print", "error", NoPath, exc[r]))
    /\ Goto(r, "exit")
    /\ exitStatus' = 1
    /\ UNCHANGED <<globalVars, envVars, isAudio, temp_dir, work_audio, segments,
                   exc, files, codecVars>>

----------------------------------------------------------------------------
(* Direct calls of the writers on a Transcription Result, run 1 *)

CallWriteSrt ==
    /\ pc[1] = "call_writers"
    /\ files' = [files EXCEPT !.srt = FileOf(write_srt(segments[1]))]
    /\ UNCHANGED <<globalVars, envVars, runVars, exitStatus, codecVars>>

CallWriteVtt ==
    /\ pc[1] = "call_writers"
    /\ files' = [files EXCEPT !.vtt = FileOf(write_vtt(segments[1]))]
    /\ UNCHANGED <<globalVars, envVars, runVars, exitStatus, codecVars>>

CallWriteTxt ==
    /\ pc[1] = "call_writers"
    /\ files' = [files EXCEPT !.txt = FileOf(write_txt(segments[1]))]
    /\ UNCHANGED <<globalVars, envVars, runVars, exitStatus, codecVars>>

----------------------------------------------------------------------------
(* Direct calls of the timestamp codec on a pair of values x <= y *)

NoStamp == <<>>

FormatSrt ==
    /\ stamps.srtX = NoStamp
    /\ stamps' = [stamps EXCEPT !.srtX = format_timestamp_srt(secsX),
                                !.srtY = format_timestamp_srt(secsY)]
    /\ UNCHANGED <<globalVars, envVars, runVars, outVars, secsX, secsY>>

FormatVtt ==
    /\ stamps.vttX = NoStamp
    /\ stamps' = [stamps EXCEPT !.vttX = format_timestamp_vtt(secsX),
                                !.vttY = format_timestamp_vtt(secsY)]
    /\ UNCHANGED <<globalVars, envVars, runVars, outVars, secsX, secsY>>

----------------------------------------------------------------------------
(* Initial states *)

NoStamps == [srtX |-> NoStamp, srtY |-> NoStamp, vttX |-> NoStamp, vttY |-> NoStamp]

\* the texts a backend can hand over: "Hi", " a\nb ", "\na\n\nb"
Texts == {<<72, 105>>, <<32, 97, 10, 98, 32>>, <<10, 97, 10, 10, 98>>}

\* 0 s, 1.5 s, 1.9995 s, 3 s
Times == {0, 1500 * TicksPerMs, 1999 * TicksPerMs + TicksPerMs \div 2,
          3000 * TicksPerMs}

\* section 3 of the specification: 0 <= start <= end
Segments ==
    {seg \in [start : Times, end : Times, text : Texts] : seg.start <= seg.end}

\* Transcription Results of at most MaxSegs segments, in non-decreasing
\* start order
SegmentLists ==
    UNION {{l \in [1..n -> Segments] :
              \A i \in 1..(n - 1) : l[i].start <= l[i + 1].start}
           : n \in 0..MaxSegs}

\* the values handed to the codec: h:m:s.ms plus a fraction of a millisecond
CodecHours == {0, MaxHours - 1, MaxHours}
CodecSeconds ==
    {(((h * 60 + m) * 60 + s) * 1000 + ms) * TicksPerMs + q :
        h \in CodecHours, m \in {0, 59}, s \in {1, 59}, ms \in {0, 500, 999},
        q \in 0..(TicksPerMs - 1)}

\* import with faster_whisper installed or not (fw \in F) and openai-whisper
\* installed or not (ow \in O)
InitImport(F, O) ==
    /\ fwInstalled \in F
    /\ owInstalled \in O
    /\ USE_FASTER_WHISPER = ImportUseFasterWhisper(fwInstalled)
    /\ whisper = ImportWhisper(fwInstalled, owInstalled)

InitIdleRuns ==
    /\ temp_dir = [r \in Runs |-> 0]
    /\ work_audio = [r \in Runs |-> NoPath]
    /\ exc = [r \in Runs |-> "none"]
    /\ log = [r \in Runs |-> <<>>]
    /\ fsDirs = {}
    /\ fsFiles = {}
    /\ touched = {}
    /\ files = NoFiles
    /\ exitStatus = -1

InitNoCodec ==
    /\ secsX = 0
    /\ secsY = 0
    /\ stamps = NoStamps

\* the program started from the command line: main, in run 1
InitMain ==
    /\ InitImport(BOOLEAN, BOOLEAN)
    /\ ffmpegOnPath \in BOOLEAN
    /\ pc = [r \in Runs |-> IF r \in MainRuns THEN "m_start" ELSE "idle"]
    /\ isAudio \in {f \in [Runs -> BOOLEAN] : \A r \in Runs \ MainRuns : ~f[r]}
    /\ segments = [r \in Runs |-> <<>>]
    /\ InitIdleRuns
    /\ InitNoCodec

\* the module imported and its writers called on a Transcription Result
InitWriters ==
    /\ InitImport({TRUE}, {TRUE})
    /\ ffmpegOnPath = TRUE
    /\ pc = [r \in Runs |-> IF r = 1 THEN "call_writers" ELSE "idle"]
    /\ isAudio = [r \in Runs |-> FALSE]
    /\ \E l \in SegmentLists : segments = [r \in Runs |-> IF r = 1 THEN l ELSE <<>>]
    /\ InitIdleRuns
    /\ InitNoCodec

Init == InitMain \/ InitWriters

\* transcribe called in every run of Runs at once, on different inputs
InitConc ==
    /\ InitImport(BOOLEAN, BOOLEAN)
    /\ ffmpegOnPath \in BOOLEAN
    /\ pc = [r \in Runs |-> "t_enter"]
    /\ isAudio \in [Runs -> BOOLEAN]
    /\ segments = [r \in Runs |-> <<>>]
    /\ InitIdleRuns
    /\ InitNoCodec

\* the codec called on x <= y
InitCodec ==
    /\ InitImport({TRUE}, {TRUE})
    /\ ffmpegOnPath = TRUE
    /\ pc = [r \in Runs |-> "idle"]
    /\ isAudio = [r \in Runs |-> FALSE]
    /\ segments = [r \in Runs |-> <<>>]
    /\ InitIdleRuns
    /\ secsX \in CodecSeconds
    /\ secsY \in {y \in CodecSeconds : secsX <= y}
    /\ stamps = NoStamps

----------------------------------------------------------------------------
(* Specifications *)

Transcribe(r) ==
    \/ TEnter(r)
    \/ TMkdtemp(r)
    \/ TNormalizeAudio(r)
    \/ TExtractVideo(r)
    \/ TBackendFaster(r)
    \/ TNoBackend(r)
    \/ TBackendWhisper(r)
    \/ TFinally(r)

Main(r) ==
    \/ MainStart(r)
    \/ MainNoSegments(r)
    \/ MainWriteSrt(r)
    \/ MainWriteVtt(r)
    \/ MainWriteTxt(r)
    \/ MainSuccess(r)
    \/ MainExcept(r)

Next ==
    \/ \E r \in MainRuns : Main(r) \/ Transcribe(r)
    \/ CallWriteSrt
    \/ CallWriteVtt
    \/ CallWriteTxt

Spec == Init /\ [][Next]_vars

NextConc == \E r \in Runs : Transcribe(r)

SpecConc == InitConc /\ [][NextConc]_vars

NextCodec == FormatSrt \/ FormatVtt

SpecCodec == InitCodec /\ [][NextCodec]_vars

----------------------------------------------------------------------------
(* Reading a log, a file, a timestamp *)

\* the positions of the events of run r that are of kind what
EventsAt(r, what) == {i \in 1..Len(log[r]) : log[r][i][1] = what}

\* run r has logged an event of kind what by who with the outcome
Happened(r, what, who, outcome) ==
    \E i \in EventsAt(r, what) : log[r][i][2] = who /\ log[r][i][4] = outcome

\* transcribe of run r is no longer executing
TranscribeExited(r) == pc[r] \in {"t_returned", "t_raised", "m_vtt", "m_txt",
                                  "m_success", "m_except", "exit"}

RECURSIVE SplitLines(_)
\* the lines of a text, each ended by "\n"
SplitLines(s) ==
    IF s = <<>> THEN <<>>
    ELSE IF \A i \in 1..Len(s) : s[i] # 10 THEN <<s>>
    ELSE LET k == CHOOSE i \in 1..Len(s) :
                      s[i] = 10 /\ \A j \in 1..(i - 1) : s[j] # 10
         IN  <<SubSeq(s, 1, k - 1)>> \o SplitLines(SubSeq(s, k + 1, Len(s)))

IsDigits(s) == \A i \in 1..Len(s) : s[i] \in 48..57

RECURSIVE Numeral(_)
\* the number a string of digits denotes
Numeral(s) ==
    IF s = <<>> THEN 0 ELSE 10 * Numeral(SubSeq(s, 1, Len(s) - 1)) + (s[Len(s)] - 48)

RECURSIVE LexLeq(_, _)
\* a <= b as Python compares two str
LexLeq(a, b) ==
    IF a = <<>> THEN TRUE
    ELSE IF b = <<>> THEN FALSE
    ELSE IF Head(a) # Head(b) THEN Head(a) < Head(b)
    ELSE LexLeq(Tail(a), Tail(b))

----------------------------------------------------------------------------
(* C1 *)

\* C1: backend fallback at call time. Once transcribe has exited, if the
\* faster-whisper attempt raised then openai-whisper was invoked after it with
\* the same audio path, and if that attempt returned, transcribe returned.
C1_CallTimeFallback ==
    \A r \in MainRuns :
        TranscribeExited(r) =>
            \A i \in EventsAt(r, "backend") :
                (log[r][i][2] = "faster-whisper" /\ log[r][i][4] = "raised") =>
                    \E j \in EventsAt(r, "backend") :
                        /\ j > i
                        /\ log[r][j][2] = "openai-whisper"
                        /\ log[r][j][3] = log[r][i][3]
                        /\ (log[r][j][4] = "returned" => exc[r] = "none")

----------------------------------------------------------------------------
(* C2 *)

----------------------------------------------------------------------------
(* C3 *)

WriterOrder == <<"srt", "vtt", "txt">>

\* the writers run r has called, in call order
WriterCalls(r) ==
    LET IsWriter(e) == e[1] = "writer" IN SelectSeq(log[r], IsWriter)

\* C3: the writers are called in the order srt, vtt, txt; once a writer has
\* raised, no later writer is called, the success message is not printed, and
\* the process ends with a non-zero exit status.
C3_WriterFailureNotSuccess ==
    \A r \in MainRuns :
        LET w == WriterCalls(r) IN
        /\ Len(w) <= 3
        /\ \A i \in 1..Len(w) : w[i][2] = WriterOrder[i]
        /\ \A i \in 1..Len(w) :
              w[i][4] = "failed" =>
                  /\ i = Len(w)
                  /\ ~Happened(r, "print", "complete", "")
                  /\ pc[r] \in {"m_except", "exit"}
                  /\ pc[r] = "exit" => (exitStatus # 0 /\ exitStatus # -1)

\* write_vtt raised after write_srt had written its file, and the process ended
C3_Witness ==
    /\ pc[1] = "exit"
    /\ Happened(1, "writer", "srt", "ok")
    /\ Happened(1, "writer", "vtt", "failed")
    /\ files.srt.exists
    /\ exitStatus = 1

----------------------------------------------------------------------------
(* C4 *)

\* ffmpeg did not run to exit status zero in run r
MediaToolFailed(r) ==
    \/ Happened(r, "which", "ffmpeg", "missing")
    \/ \E who \in {"normalize", "extract"} : Happened(r, "ffmpeg", who, "failed")

\* C4: a backend is invoked only after the ffmpeg subprocess of the run has
\* exited with status zero, and on the temporary path ffmpeg wrote, never on
\* the input path; no writer is called before transcribe has returned; a
\* missing ffmpeg or a non-zero exit is raised to the caller without a second
\* ffmpeg run, no backend being invoked and no caption file written.
C4_StageOrder ==
    \A r \in MainRuns :
        /\ Cardinality(EventsAt(r, "ffmpeg")) <= 1
        /\ \A i \in EventsAt(r, "backend") :
              /\ \E j \in EventsAt(r, "ffmpeg") :
                    /\ j < i
                    /\ log[r][j][4] = "exit0"
                    /\ log[r][j][3] = log[r][i][3]
              /\ log[r][i][3] = work_audio[r]
              /\ log[r][i][3] # InputPath(r)
              /\ log[r][i][3][1] = "tmp"
        /\ \A i \in EventsAt(r, "writer") :
              \E j \in EventsAt(r, "transcribe") :
                    j < i /\ log[r][j][4] = "returned"
        /\ MediaToolFailed(r) =>
              /\ EventsAt(r, "backend") = {}
              /\ EventsAt(r, "writer") = {}
              /\ files = NoFiles
              /\ pc[r] \in {"t_finally", "t_raised", "exit"}
              /\ exc[r] # "none"
              /\ pc[r] = "exit" => exitStatus = 1

\* ffmpeg exited non-zero on an audio input and the process ended
C4_Witness ==
    /\ pc[1] = "exit"
    /\ isAudio[1]
    /\ Happened(1, "ffmpeg", "normalize", "failed")
    /\ exitStatus = 1

----------------------------------------------------------------------------
(* C5 *)

\* transcribe of run r returned an empty Transcription Result
ReturnedNoSegments(r) ==
    Happened(r, "transcribe", "exit", "returned") /\ segments[r] = <<>>

\* C5 as stated: a run whose transcription returns no segments ends with the
\* web file holding the header line and nothing else, and zero-byte exchange
\* and plain files.
C5_EmptyRunYieldsFiles ==
    \A r \in MainRuns :
        (pc[r] = "exit" /\ ReturnedNoSegments(r)) =>
            /\ files.vtt.exists
            /\ SplitLines(files.vtt.data)[1] = <<87, 69, 66, 86, 84, 84>>
            /\ files.srt = FileOf(<<>>)
            /\ files.txt = FileOf(<<>>)

\* C5 as amended: called with an empty segment sequence write_vtt writes the
\* header line and one empty line ("WEBVTT\n\n") and no cue, write_srt and
\* write_txt write zero-length content; main calls no writer when transcribe
\* returns no segments: it ends with exit status 0 and no caption file.
C5_EmptyResult ==
    /\ (pc[1] = "call_writers" /\ segments[1] = <<>>) =>
          /\ files.vtt.exists =>
                /\ files.vtt.data = <<87, 69, 66, 86, 84, 84, 10, 10>>
                /\ SplitLines(files.vtt.data) = <<<<87, 69, 66, 86, 84, 84>>, <<>>>>
          /\ files.srt.exists => files.srt.data = <<>>
          /\ files.txt.exists => files.txt.data = <<>>
    /\ \A r \in MainRuns :
          (ReturnedNoSegments(r) /\ pc[r] = "exit") =>
              /\ files = NoFiles
              /\ EventsAt(r, "writer") = {}
              /\ exitStatus = 0

\* the three writers have been called with no segment
C5_Witness ==
    /\ pc[1] = "call_writers"
    /\ segments[1] = <<>>
    /\ files.srt.exists /\ files.vtt.exists /\ files.txt.exists

----------------------------------------------------------------------------
(* C6 *)

\* the text of a segment trimmed, every line break in it a single space
OneLine(text) == [i \in 1..Len(strip(text)) |->
                     IF strip(text)[i] = 10 THEN 32 ELSE strip(text)[i]]

\* C6: in the file of each of the three writers every segment occupies exactly
\* one text line, which is the segment's text trimmed and with its line breaks
\* replaced by spaces: line 4i-1 of the exchange file, line 3i+1 of the web
\* file, line i of the plain file.
C6_OneTextLinePerSegment ==
    pc[1] = "call_writers" =>
        LET n == Len(segments[1])
            srt == SplitLines(files.srt.data)
            vtt == SplitLines(files.vtt.data)
            txt == SplitLines(files.txt.data)
        IN  /\ files.srt.exists =>
                  /\ Len(srt) = 4 * n
                  /\ \A i \in 1..n : srt[4 * i - 1] = OneLine(segments[1][i].text)
            /\ files.vtt.exists =>
                  /\ Len(vtt) = 2 + 3 * n
                  /\ \A i \in 1..n : vtt[3 * i + 1] = OneLine(segments[1][i].text)
            /\ files.txt.exists =>
                  /\ Len(txt) = n
                  /\ \A i \in 1..n : txt[i] = OneLine(segments[1][i].text)

\* the part of C6 that is about write_srt and write_vtt alone
C6_SrtVttOnly ==
    pc[1] = "call_writers" =>
        LET n == Len(segments[1])
            srt == SplitLines(files.srt.data)
            vtt == SplitLines(files.vtt.data)
        IN  /\ files.srt.exists =>
                  /\ Len(srt) = 4 * n
                  /\ \A i \in 1..n : srt[4 * i - 1] = OneLine(segments[1][i].text)
            /\ files.vtt.exists =>
                  /\ Len(vtt) = 2 + 3 * n
                  /\ \A i \in 1..n : vtt[3 * i + 1] = OneLine(segments[1][i].text)

----------------------------------------------------------------------------
(* C9 *)

\* write_srt wrote the exchange file of run 1 from segments[1]
SrtWritten ==
    /\ files.srt.exists
    /\ pc[1] = "call_writers" \/ Happened(1, "writer", "srt", "ok")

\* C9: for N segments write_srt writes N blocks of four lines, in segment
\* order: the index i counted from 1, the start and end timestamps of segment
\* i around " --> ", the text of segment i, an empty line; where segment i
\* ends at the start of segment i + 1 the end timestamp of block i and the
\* start timestamp of block i + 1 are the same string.
C9_SrtBlocks ==
    SrtWritten =>
        LET segs  == segments[1]
            n     == Len(segs)
            lines == SplitLines(files.srt.data)
        IN  /\ Len(lines) = 4 * n
            /\ \A i \in 1..n :
                  /\ IsDigits(lines[4 * i - 3])
                  /\ lines[4 * i - 3][1] # 48
                  /\ Numeral(lines[4 * i - 3]) = i
                  /\ lines[4 * i - 2] =
                        format_timestamp_srt(segs[i].start) \o <<32, 45, 45, 62, 32>>
                          \o format_timestamp_srt(segs[i].end)
                  /\ lines[4 * i - 1] = OneLine(segs[i].text)
                  /\ lines[4 * i] = <<>>
            /\ \A i \in 1..(n - 1) :
                  segs[i].end = segs[i + 1].start =>
                      SubSeq(lines[4 * i - 2], 18, 29) = SubSeq(lines[4 * i + 2], 1, 12)

\* two blocks written, 00:00:01,500 ending block 1 and starting block 2
C9_Witness ==
    /\ pc[1] = "call_writers"
    /\ files.srt.exists
    /\ Len(segments[1]) = 2
    /\ segments[1][1].end = segments[1][2].start
    /\ SubSeq(SplitLines(files.srt.data)[2], 18, 29) =
          <<48, 48, 58, 48, 48, 58, 48, 49, 44, 53, 48, 48>>
    /\ SubSeq(SplitLines(files.srt.data)[6], 1, 12) =
          <<48, 48, 58, 48, 48, 58, 48, 49, 44, 53, 48, 48>>

----------------------------------------------------------------------------
(* C7 *)

\* t is digits ":" 2 digits ":" 2 digits sep 3 digits, the leading digits at
\* least two and without a padding zero when more than two
TsWellFormed(t, sep) ==
    /\ Len(t) >= 12
    /\ LET hd == Len(t) - 10
       IN  /\ IsDigits(SubSeq(t, 1, hd))
           /\ hd > 2 => t[1] # 48
           /\ t[hd + 1] = 58
           /\ IsDigits(SubSeq(t, hd + 2, hd + 3))
           /\ t[hd + 4] = 58
           /\ IsDigits(SubSeq(t, hd + 5, hd + 6))
           /\ t[hd + 7] = sep
           /\ IsDigits(SubSeq(t, hd + 8, hd + 10))

TsH(t)  == Numeral(SubSeq(t, 1, Len(t) - 10))
TsM(t)  == Numeral(SubSeq(t, Len(t) - 8, Len(t) - 7))
TsS(t)  == Numeral(SubSeq(t, Len(t) - 5, Len(t) - 4))
TsMs(t) == Numeral(SubSeq(t, Len(t) - 2, Len(t)))

\* the milliseconds a timestamp denotes
TsTotal(t) == ((TsH(t) * 60 + TsM(t)) * 60 + TsS(t)) * 1000 + TsMs(t)

Abs(n) == IF n < 0 THEN -n ELSE n

\* t encodes x to the nearest millisecond, the hours not wrapped
EncodesNearest(x, t, sep) ==
    /\ TsWellFormed(t, sep)
    /\ TsM(t) <= 59 /\ TsS(t) <= 59 /\ TsMs(t) <= 999
    /\ 2 * Abs(TsTotal(t) * TicksPerMs - x) <= TicksPerMs
    /\ TsH(t) = TsTotal(t) \div 3600000
    /\ x >= 24 * 3600000 * TicksPerMs => TsH(t) >= 24

\* the two strings differ in the millisecond separator alone
SameButSeparator(a, b) ==
    /\ Len(a) = Len(b)
    /\ \A i \in 1..Len(a) :
          IF i = Len(a) - 3 THEN a[i] = 44 /\ b[i] = 46 ELSE a[i] = b[i]

\* 1.9995 s, on a grid that holds the half millisecond
IsExampleSeconds(x) ==
    TicksPerMs % 2 = 0 /\ x = 1999 * TicksPerMs + TicksPerMs \div 2

\* C7: format_timestamp_srt(x) and format_timestamp_vtt(x) encode x * 1000
\* rounded to the nearest millisecond as h, m, s, ms of that one integer, with
\* 0 <= m, s <= 59, 0 <= ms <= 999 and h not wrapped; 1.9995 gives
\* 00:00:02,000; the two outputs differ only in the millisecond separator.
C7_RoundedDecomposition ==
    /\ stamps.srtX # NoStamp =>
          /\ EncodesNearest(secsX, stamps.srtX, 44)
          /\ EncodesNearest(secsY, stamps.srtY, 44)
          /\ IsExampleSeconds(secsX) =>
                stamps.srtX = <<48, 48, 58, 48, 48, 58, 48, 50, 44, 48, 48, 48>>
    /\ stamps.vttX # NoStamp =>
          /\ EncodesNearest(secsX, stamps.vttX, 46)
          /\ EncodesNearest(secsY, stamps.vttY, 46)
    /\ (stamps.srtX # NoStamp /\ stamps.vttX # NoStamp) =>
          /\ SameButSeparator(stamps.srtX, stamps.vttX)
          /\ SameButSeparator(stamps.srtY, stamps.vttY)

\* 1.9995 s formatted by both codecs: 00:00:02,000 and 00:00:02.000
C7_Witness ==
    /\ IsExampleSeconds(secsX)
    /\ stamps.srtX = <<48, 48, 58, 48, 48, 58, 48, 50, 44, 48, 48, 48>>
    /\ stamps.vttX = <<48, 48, 58, 48, 48, 58, 48, 50, 46, 48, 48, 48>>

----------------------------------------------------------------------------
(* C8 *)

\* a <= b, the shorter string first and strings of one length as Python
\* compares them
ShortLexLeq(a, b) == Len(a) < Len(b) \/ (Len(a) = Len(b) /\ LexLeq(a, b))

\* C8 as stated: for x <= y the output for x is less than or equal to the
\* output for y as strings, for both codecs, and every output is one H:M:S
\* triple, the separator and three millisecond digits.
C8_StringMonotone ==
    /\ stamps.srtX # NoStamp =>
          /\ LexLeq(stamps.srtX, stamps.srtY)
          /\ TsWellFormed(stamps.srtX, 44) /\ TsWellFormed(stamps.srtY, 44)
    /\ stamps.vttX # NoStamp =>
          /\ LexLeq(stamps.vttX, stamps.vttY)
          /\ TsWellFormed(stamps.vttX, 46) /\ TsWellFormed(stamps.vttY, 46)

\* x <= y formatted as a and b by one codec
MonotoneAsTimes(a, b) ==
    /\ TsTotal(a) <= TsTotal(b)
    /\ ShortLexLeq(a, b)
    /\ TsH(b) <= 99 => (Len(a) = 12 /\ Len(b) = 12 /\ LexLeq(a, b))

\* C8 as amended: for x <= y the time encoded for x is at most the time
\* encoded for y, and the output for x is less than or equal to the output for
\* y as strings while the hour count of y is at most 99 (in general when the
\* shorter string is taken first); every output is one H:M:S triple, the
\* separator and milliseconds, M and S of 2 digits, milliseconds of 3, H
\* zero-padded to 2 digits and of more digits, unpadded, past 99 hours.
C8_MonotoneAmended ==
    /\ stamps.srtX # NoStamp =>
          /\ TsWellFormed(stamps.srtX, 44) /\ TsWellFormed(stamps.srtY, 44)
          /\ MonotoneAsTimes(stamps.srtX, stamps.srtY)
    /\ stamps.vttX # NoStamp =>
          /\ TsWellFormed(stamps.vttX, 46) /\ TsWellFormed(stamps.vttY, 46)
          /\ MonotoneAsTimes(stamps.vttX, stamps.vttY)

\* x below 100 hours and y at 100 hours or more, both formatted
C8_Witness ==
    /\ stamps.srtX # NoStamp /\ stamps.vttX # NoStamp
    /\ secsX < secsY
    /\ TsH(stamps.srtX) = 99
    /\ TsH(stamps.srtY) = 100
    /\ Len(stamps.srtY) = 13

----------------------------------------------------------------------------
(* C10 *)

\* C10: two runs of transcribe interleaved in any way have different temporary
\* directories and different normalized audio paths; a temporary file is
\* written (by ffmpeg) and read (by a backend) by the run it belongs to alone;
\* the globals set at import are what import made them.
C10_TempIsolation ==
    /\ \A r1, r2 \in Runs :
          r1 # r2 =>
              /\ temp_dir[r1] # 0 => temp_dir[r1] # temp_dir[r2]
              /\ work_audio[r1] # NoPath => work_audio[r1] # work_audio[r2]
    /\ \A a \in touched :
          /\ a[1] = work_audio[a[2]]
          /\ a[1][1] = "tmp" /\ a[1][2] = temp_dir[a[2]]
          /\ \A r \in Runs \ {a[2]} : <<a[1], r>> \notin touched
    /\ \A r \in Runs :
          \A i \in EventsAt(r, "backend") \cup EventsAt(r, "ffmpeg") :
              log[r][i][3] = work_audio[r]
    /\ USE_FASTER_WHISPER = ImportUseFasterWhisper(fwInstalled)
    /\ whisper = ImportWhisper(fwInstalled, owInstalled)

\* both runs, on audio inputs, have had ffmpeg write and a backend read their
\* input.wav, and both have returned
C10_Witness ==
    /\ \A r \in Runs :
          /\ pc[r] = "t_returned"
          /\ isAudio[r]
          /\ <<work_audio[r], r>> \in touched
          /\ EventsAt(r, "backend") # {}
    /\ work_audio[1][3] = work_audio[2][3]

=============================================================================
